---- MODULE Spec2Model ----
(***************************************************************************)
(* Model of the news / video recommender pipeline of src/app.py (the       *)
(* Streamlit application) and src/recommender.py (the stand-alone module). *)
(*                                                                         *)
(* Text is a sequence of tokens.  A token is a tuple of strings whose head *)
(* names its kind: punctuation, white space, a markdown fence, a prose     *)
(* word, or a JSON scalar.  A string scalar <<"str", u1, ..., un>> carries *)
(* its content as units u1..un (a unit is a run of characters that the     *)
(* code never splits: "http", "://", a host, a title word, a triple        *)
(* backtick).  <<"stresc", ...>> is the same string written with \uXXXX    *)
(* escapes in the text, so that a regular expression over the text does    *)
(* not see its backticks but json.loads decodes them.                      *)
(* Strings of the input alphabet hold no brackets, braces or white space.  *)
(***************************************************************************)
EXTENDS Integers, Sequences, FiniteSets, TLC

VARIABLES
    rev,            \* which revision runs: "app" (src/app.py) or "recommender"
    pc,             \* position of the recommendation request
    article_title,  \* title of the reference article
    response,       \* outcome of model.generate_content(prompt)
    recs,           \* list returned by get_gemini_recommendations
    raised,         \* an exception left get_gemini_recommendations
    errors,         \* error notices shown (st.error) or printed
    path,           \* parse path that produced recs
    prev_recs,      \* list returned by the previous extraction
    category,       \* category handed to fetch_news
    ipc,            \* position of the ingestion
    feed_results,   \* what feedparser.parse gave for each feed, in feed order
    fallback_result, \* what feedparser.parse gave for the fallback feed
    articles,       \* the list of articles before deduplication
    news_df,        \* corpus returned by fetch_news / fetch_all_news
    fetch_success,  \* fetch_news: some primary feed was fetched
    failed_feeds_count,
    notices,        \* st.warning / st.error / print notices of the ingestion
    fallback_queries, \* search queries sent to the fallback feed
    ingest_raised,  \* an exception left the ingestion
    now,            \* the clock, in seconds
    cache,          \* st.cache_data entries of fetch_news, by category
    ingestions,     \* how often fetch_news itself ran, by category
    last_call,      \* the previous cached call of each category
    call,           \* the cached call just made
    vpc,            \* position of the video request
    youtube_api_key, \* the video API key in force
    keyword_response, \* outcome of the model call that asks for keywords
    api_results,    \* what the video search API answers, call by call
    keywords,       \* the keyword list the video operation works through
    gateway_calls,  \* the calls of fetch_youtube_videos, in order
    videos,         \* list returned by the video operation
    video_errors,   \* error notices of the video operation
    ppc,            \* position of the prompt construction
    corpus,         \* row labels of the corpus handed to get_gemini_recommendations
    news_sample,    \* row labels serialized into the prompt, in order
    usage_count,    \* st.session_state.usage_count of each session
    api_keys_provided, \* st.session_state.api_keys_provided of each session
    session_keys,   \* st.session_state.google_api_key / youtube_api_key of each session
    genai_api_key,  \* the key genai.configure last set, one for the whole process
    spc,            \* where each session's run of main stands
    run,            \* what each session's current run of main saw and did
    model_calls,    \* how many recommendation model calls each session made
    submitted       \* the session submitted the key form with a model key

extractVars == <<rev, pc, article_title, response, recs, raised, errors, path, prev_recs>>

ingestVars ==
    <<category, ipc, feed_results, fallback_result, articles, news_df, fetch_success, failed_feeds_count, notices,
      fallback_queries, ingest_raised>>

cacheVars == <<now, cache, ingestions, last_call, call>>

videoVars ==
    <<vpc, youtube_api_key, keyword_response, api_results, keywords, gateway_calls, videos,
      video_errors>>

promptVars == <<ppc, corpus, news_sample>>

sessionVars ==
    <<usage_count, api_keys_provided, session_keys, genai_api_key, spc, run, model_calls,
      submitted>>

pipelineVars == <<extractVars, ingestVars, cacheVars, videoVars, promptVars>>

vars == <<pipelineVars, sessionVars>>

-----------------------------------------------------------------------------
(* Tokens *)

LBRACK == <<"[">>
RBRACK == <<"]">>
LBRACE == <<"{">>
RBRACE == <<"}">>
COMMA == <<",">>
COLON == <<":">>
NL == <<"nl">>
SP == <<"sp">>
FENCE == <<"fence">>
JSONWORD == <<"json">>
WORD == <<"word">>
NULLV == <<"null">>
MISSING == <<"missing">>
TICKS == "ticks"

WsTokens == {NL, SP}

Str(units) == <<"str">> \o units

NUM7 == <<"num", "7">>

IsStr(x) == Head(x) = "str"

IsScalarTok(x) == x = NULLV \/ Head(x) \in {"str", "stresc", "num"}

\* json.loads decodes \uXXXX escapes of a string
ScalarOf(x) == IF Head(x) = "stresc" THEN Str(Tail(x)) ELSE x

SetMin(S) == CHOOSE x \in S : \A y \in S : x <= y

SetMax(S) == CHOOSE x \in S : \A y \in S : y <= x

StartsWith(s, p) == Len(s) >= Len(p) /\ SubSeq(s, 1, Len(p)) = p

-----------------------------------------------------------------------------
(* str.strip() and the two clean_gemini_response *)

RECURSIVE LStrip(_)
LStrip(t) == IF t # <<>> /\ Head(t) \in WsTokens THEN LStrip(Tail(t)) ELSE t

RECURSIVE RStrip(_)
RStrip(t) ==
    IF t # <<>> /\ t[Len(t)] \in WsTokens THEN RStrip(SubSeq(t, 1, Len(t) - 1)) ELSE t

strip(t) == RStrip(LStrip(t))

\* a regular expression that deletes a triple backtick deletes it inside string literals too
StripTicks(x) ==
    IF IsStr(x) THEN Str(SelectSeq(Tail(x), LAMBDA u : u # TICKS)) ELSE x

StripTicksAll(t) == [k \in 1..Len(t) |-> StripTicks(t[k])]

\* re.sub of (fence json ws* | fence ws*) by nothing: leftmost match first, no
\* overlap; the text before the first match is copied, the rest is searched on
RECURSIVE app_sub(_)
app_sub(t) ==
    LET starts == {p \in 1..Len(t) : t[p] = FENCE}
    IN  IF starts = {} THEN StripTicksAll(t)
        ELSE LET p == SetMin(starts)
                 r1 == SubSeq(t, p + 1, Len(t))
                 r2 == IF r1 # <<>> /\ Head(r1) = JSONWORD THEN Tail(r1) ELSE r1
             IN  StripTicksAll(SubSeq(t, 1, p - 1)) \o app_sub(LStrip(r2))

app_clean_gemini_response(response_text) == strip(app_sub(strip(response_text)))

\* re.sub of (fence json newline | newline fence | fence) by nothing
RECURSIVE recommender_sub(_)
recommender_sub(t) ==
    LET n == Len(t)
        starts == {p \in 1..n : t[p] = FENCE \/ (t[p] = NL /\ p < n /\ t[p + 1] = FENCE)}
    IN  IF starts = {} THEN StripTicksAll(t)
        ELSE LET p == SetMin(starts)
                 taken == IF t[p] = NL THEN 2
                          ELSE IF p + 2 <= n /\ t[p + 1] = JSONWORD /\ t[p + 2] = NL THEN 3
                          ELSE 1
             IN  StripTicksAll(SubSeq(t, 1, p - 1)) \o recommender_sub(SubSeq(t, p + taken, n))

recommender_clean_gemini_response(response_text) == recommender_sub(strip(response_text))

-----------------------------------------------------------------------------
(* json.loads over tokens.  The grammar covered: a scalar, an object of     *)
(* scalar members, or an array of scalars and such objects.                 *)

NoWs(t) == SelectSeq(t, LAMBDA x : x \notin WsTokens)

ObjOk(m) ==
    /\ Len(m) = 0 \/ Len(m) % 4 = 3
    /\ \A k \in 1..Len(m) :
         CASE k % 4 = 1 -> Head(m[k]) \in {"str", "stresc"}
           [] k % 4 = 2 -> m[k] = COLON
           [] k % 4 = 3 -> IsScalarTok(m[k])
           [] OTHER -> m[k] = COMMA

\* a repeated key keeps its last value; an absent key reads as MISSING
Lookup(m, key) ==
    LET ks == {k \in 1..Len(m) : k % 4 = 1 /\ ScalarOf(m[k]) = Str(<<key>>)}
    IN  IF ks = {} THEN MISSING ELSE ScalarOf(m[SetMax(ks) + 2])

DictElem(m) ==
    [isdict |-> TRUE, title |-> Lookup(m, "title"), link |-> Lookup(m, "link"),
     source |-> Lookup(m, "source"), val |-> MISSING]

ScalarElem(x) ==
    [isdict |-> FALSE, title |-> MISSING, link |-> MISSING, source |-> MISSING,
     val |-> ScalarOf(x)]

ParseFail == [ok |-> FALSE, islist |-> FALSE, items |-> <<>>]

\* elements of an array from position i of T up to the closing bracket T[Len(T)]
RECURSIVE ParseItems(_, _)
ParseItems(T, i) ==
    LET After(j, e) ==
            IF j = Len(T) THEN [ok |-> TRUE, islist |-> TRUE, items |-> <<e>>]
            ELSE IF j < Len(T) /\ T[j] = COMMA
                 THEN LET r == ParseItems(T, j + 1)
                      IN  IF r.ok THEN [r EXCEPT !.items = <<e>> \o r.items] ELSE ParseFail
                 ELSE ParseFail
    IN  IF i >= Len(T) THEN ParseFail
        ELSE IF IsScalarTok(T[i]) THEN After(i + 1, ScalarElem(T[i]))
        ELSE IF T[i] = LBRACE
             THEN LET closes == {k \in (i + 1)..(Len(T) - 1) : T[k] = RBRACE}
                  IN  IF closes = {} THEN ParseFail
                      ELSE LET c == SetMin(closes)
                               m == SubSeq(T, i + 1, c - 1)
                           IN  IF ObjOk(m) THEN After(c + 1, DictElem(m)) ELSE ParseFail
        ELSE ParseFail

json_loads(t) ==
    LET T == NoWs(t)
        n == Len(T)
    IN  IF n = 0 THEN ParseFail
        ELSE IF n = 1 /\ IsScalarTok(T[1]) THEN [ok |-> TRUE, islist |-> FALSE, items |-> <<>>]
        ELSE IF T[1] = LBRACE /\ T[n] = RBRACE /\ ObjOk(SubSeq(T, 2, n - 1))
             THEN [ok |-> TRUE, islist |-> FALSE, items |-> <<>>]
        ELSE IF T[1] = LBRACK /\ T[n] = RBRACK
             THEN IF n = 2 THEN [ok |-> TRUE, islist |-> TRUE, items |-> <<>>]
                  ELSE ParseItems(T, 2)
        ELSE ParseFail

-----------------------------------------------------------------------------
(* json.dumps of a list of parsed elements (default separators) *)

Member(key, v) == IF v = MISSING THEN <<>> ELSE <<<<Str(<<key>>), COLON, SP, v>>>>

RECURSIVE JoinTokens(_)
JoinTokens(parts) ==
    IF parts = <<>> THEN <<>>
    ELSE IF Len(parts) = 1 THEN parts[1]
    ELSE parts[1] \o <<COMMA, SP>> \o JoinTokens(Tail(parts))

dumps_elem(e) ==
    IF e.isdict
    THEN <<LBRACE>> \o JoinTokens(Member("title", e.title) \o Member("link", e.link)
                                  \o Member("source", e.source)) \o <<RBRACE>>
    ELSE <<e.val>>

json_dumps(items) ==
    <<LBRACK>> \o JoinTokens([k \in 1..Len(items) |-> dumps_elem(items[k])]) \o <<RBRACK>>

-----------------------------------------------------------------------------
(* re.search(r'\[\s*\{.*?\}\s*\]', text, re.DOTALL): the leftmost start, and *)
(* from it the shortest match.  The result is the matched text or NoMatch.   *)

NoMatch == <<<<"nomatch">>>>

NextNonWs(t, i) ==
    LET ks == {k \in (i + 1)..Len(t) : t[k] \notin WsTokens}
    IN  IF ks = {} THEN 0 ELSE SetMin(ks)

IslandEnds(t, i) ==
    LET j == NextNonWs(t, i)
    IN  IF t[i] # LBRACK \/ j = 0 \/ t[IF j = 0 THEN i ELSE j] # LBRACE THEN {}
        ELSE {k \in (j + 1)..Len(t) :
                /\ t[k] = RBRACE
                /\ NextNonWs(t, k) # 0
                /\ t[IF NextNonWs(t, k) = 0 THEN k ELSE NextNonWs(t, k)] = RBRACK}

re_search_island(t) ==
    LET starts == {i \in 1..Len(t) : IslandEnds(t, i) # {}}
    IN  IF starts = {} THEN NoMatch
        ELSE LET i == SetMin(starts)
                 k == SetMin(IslandEnds(t, i))
             IN  SubSeq(t, i, NextNonWs(t, k))

-----------------------------------------------------------------------------
(* The validity filter of the list comprehension *)

HTTP == <<"http">>

\* Python truth value of rec.get("title")
Truthy(v) == v \notin {MISSING, NULLV, Str(<<>>), <<"num", "0">>}

\* "keep", "drop", or "raise" (AttributeError: startswith on a value that is no string)
Verdict(rec, title) ==
    IF ~rec.isdict THEN "drop"
    ELSE IF ~Truthy(rec.title) THEN "drop"
    ELSE LET link == IF rec.link = MISSING THEN Str(<<>>) ELSE rec.link
         IN  IF ~IsStr(link) THEN "raise"
             ELSE IF ~StartsWith(Tail(link), HTTP) THEN "drop"
             ELSE IF rec.title = title THEN "drop"
             ELSE "keep"

FilterRaises(items, title) == \E k \in 1..Len(items) : Verdict(items[k], title) = "raise"

valid_recommendations(items, title) ==
    SelectSeq(items, LAMBDA rec : Verdict(rec, title) = "keep")

\* {"title": rec["title"], "link": rec["link"]}
Project(items) == [k \in 1..Len(items) |-> [items[k] EXCEPT !.source = MISSING]]

FirstN(items, n) == SubSeq(items, 1, IF Len(items) > n THEN n ELSE Len(items))

RecLimit == 5

Ret(r, e, p) == [recs |-> r, raised |-> FALSE, errors |-> e, path |-> p]

Raise == [recs |-> <<>>, raised |-> TRUE, errors |-> {}, path |-> "none"]

\* the fallback of both revisions: the first JSON island of the cleaned text, unfiltered
fallback_extraction(cleaned, e) ==
    LET m == re_search_island(cleaned)
    IN  IF m # NoMatch /\ json_loads(m).ok
        THEN Ret(json_loads(m).items, e, "fallback")
        ELSE Ret(<<>>, e, "none")

\* src/app.py: everything from the model call on sits in one try
app_get_gemini_recommendations(resp, title) ==
    IF resp.failed THEN Ret(<<>>, {"generic"}, "none")
    ELSE LET cleaned == app_clean_gemini_response(resp.text)
             parsed == json_loads(cleaned)
         IN  IF ~parsed.ok THEN fallback_extraction(cleaned, {"parse"})
             ELSE IF ~parsed.islist THEN Ret(<<>>, {"format"}, "none")
             ELSE IF FilterRaises(parsed.items, title) THEN Ret(<<>>, {"generic"}, "none")
             ELSE Ret(Project(valid_recommendations(parsed.items, title)), {}, "strict")

\* src/recommender.py: the model call and the empty test come before the try,
\* and the try catches json.JSONDecodeError only
recommender_get_gemini_recommendations(resp, title) ==
    IF resp.failed THEN Raise
    ELSE IF strip(resp.text) = <<>> THEN Ret(<<>>, {"empty"}, "none")
    ELSE LET cleaned == recommender_clean_gemini_response(resp.text)
             parsed == json_loads(cleaned)
         IN  IF ~parsed.ok THEN fallback_extraction(cleaned, {"parse"})
             ELSE IF ~parsed.islist THEN Ret(<<>>, {"nonlist"}, "none")
             ELSE IF FilterRaises(parsed.items, title) THEN Raise
             ELSE Ret(FirstN(valid_recommendations(parsed.items, title), RecLimit), {}, "strict")

get_gemini_recommendations(r, resp, title) ==
    IF r = "app" THEN app_get_gemini_recommendations(resp, title)
    ELSE recommender_get_gemini_recommendations(resp, title)

-----------------------------------------------------------------------------
(* What the hosted model may answer *)

MaxItems == 2
LongLen == 6

Elem(t, l, s) == [isdict |-> TRUE, title |-> t, link |-> l, source |-> s, val |-> MISSING]

LinkA == Str(<<"http", "://", "a">>)
LinkB == Str(<<"http", "s", "://", "b">>)

RefTitles == {Str(<<"R">>), Str(<<"A">>)}

TitleVals == {MISSING, NULLV, Str(<<>>), Str(<<"R">>), Str(<<"A">>), NUM7}

LinkVals == {MISSING, NULLV, LinkA, LinkB, Str(<<"ftp", "://", "c">>), NUM7}

\* every title with a valid link, every link with a valid title, a falsy title with
\* a link that is no string, a title holding a triple backtick, an extra key, and
\* elements that are no object
Elems ==
    {Elem(t, LinkA, MISSING) : t \in TitleVals}
    \cup {Elem(Str(<<"A">>), l, MISSING) : l \in LinkVals}
    \cup {Elem(Str(<<>>), NULLV, MISSING), Elem(Str(<<"R">>), LinkB, MISSING)}
    \cup {Elem(Str(<<TICKS, "A">>), LinkA, MISSING), Elem(Str(<<"A">>), LinkA, Str(<<"S">>))}
    \cup {ScalarElem(Str(<<"A">>)), ScalarElem(NUM7)}

LongElems == {Elem(Str(<<"A">>), LinkA, MISSING), Elem(Str(<<"R">>), LinkB, MISSING)}

Arrays == UNION {[1..n -> Elems] : n \in 0..MaxItems} \cup [1..LongLen -> LongElems]

\* the model writes a backtick inside a string as a ` escape
Escape(v) == IF IsStr(v) /\ \E k \in 1..Len(v) : v[k] = TICKS THEN <<"stresc">> \o Tail(v) ELSE v

ModelJson(items) ==
    json_dumps([k \in 1..Len(items) |->
        [items[k] EXCEPT !.title = Escape(@), !.link = Escape(@), !.val = Escape(@)]])

Prose == <<WORD, SP, WORD>>

\* an array whose title holds a triple backtick written as it is, which JSON allows
LiteralTicksJson == json_dumps(<<Elem(Str(<<TICKS, "A">>), LinkA, MISSING)>>)

Bodies ==
    {ModelJson(a) : a \in Arrays}
    \cup {<<>>, Prose, <<NULLV>>, LiteralTicksJson, dumps_elem(Elem(Str(<<"A">>), LinkA, MISSING)),
          <<LBRACK>> \o dumps_elem(Elem(Str(<<"A">>), LinkA, MISSING)) \o <<COMMA, RBRACK>>}

Shapes == {"plain", "padded", "fence_json", "fence_bare", "fence_json_sp", "prose", "prose_fence"}

Wrap(shape, b) ==
    CASE shape = "plain" -> b
      [] shape = "padded" -> <<NL>> \o b \o <<SP, NL>>
      [] shape = "fence_json" -> <<FENCE, JSONWORD, NL>> \o b \o <<NL, FENCE>>
      [] shape = "fence_bare" -> <<FENCE, NL>> \o b \o <<NL, FENCE>>
      [] shape = "fence_json_sp" -> <<FENCE, JSONWORD, SP>> \o b \o <<FENCE>>
      [] shape = "prose" -> <<WORD, SP>> \o b
      [] OTHER -> <<WORD, NL, FENCE, JSONWORD, NL>> \o b \o <<NL, FENCE, NL, WORD>>

TransportFailure == [failed |-> TRUE, text |-> <<>>]

ModelOutcomes ==
    {TransportFailure} \cup {[failed |-> FALSE, text |-> Wrap(s, b)] : s \in Shapes, b \in Bodies}

Revisions == {"app", "recommender"}

-----------------------------------------------------------------------------
(* The recommendation request *)

IngestIdle ==
    /\ category = "none"
    /\ ipc = "idle"
    /\ feed_results = <<>>
    /\ fallback_result = [exc |-> TRUE, bozo |-> FALSE, ftitle |-> MISSING, entries |-> <<>>]
    /\ articles = <<>>
    /\ news_df = <<>>
    /\ fetch_success = FALSE
    /\ failed_feeds_count = 0
    /\ notices = {}
    /\ fallback_queries = <<>>
    /\ ingest_raised = FALSE

NoEntry == [present |-> FALSE, df |-> <<>>, stored_at |-> 0]

NoCall ==
    [category |-> "none", at |-> 0, prev_at |-> -1, prev_ingested |-> FALSE,
     ingested |-> FALSE, before |-> NoEntry, count_before |-> 0, df |-> <<>>]

CacheIdle ==
    /\ now = 0
    /\ cache = <<>>
    /\ ingestions = <<>>
    /\ last_call = <<>>
    /\ call = NoCall

VideoIdle ==
    /\ vpc = "idle"
    /\ youtube_api_key = MISSING
    /\ keyword_response = [failed |-> TRUE, text |-> <<>>]
    /\ api_results = <<>>
    /\ keywords = <<>>
    /\ gateway_calls = <<>>
    /\ videos = <<>>
    /\ video_errors = {}

Sessions == {1, 2}

DEFAULT_GOOGLE_API_KEY == "env_google"
DEFAULT_YOUTUBE_API_KEY == "env_youtube"

NoKeys == [google |-> "unset", youtube |-> "unset"]

NoRun ==
    [kind |-> "none", required |-> FALSE, count |-> 0, provided |-> FALSE,
     youtube |-> "unset", calls |-> <<>>]

SessionIdle ==
    /\ usage_count = [s \in Sessions |-> 0]
    /\ api_keys_provided = [s \in Sessions |-> FALSE]
    /\ session_keys = [s \in Sessions |-> NoKeys]
    /\ genai_api_key = "unconfigured"
    /\ spc = [s \in Sessions |-> "idle"]
    /\ run = [s \in Sessions |-> NoRun]
    /\ model_calls = [s \in Sessions |-> 0]
    /\ submitted = [s \in Sessions |-> FALSE]

PromptIdle ==
    /\ ppc = "idle"
    /\ corpus = <<>>
    /\ news_sample = <<>>

ExtractIdle ==
    /\ pc = "idle"
    /\ article_title = Str(<<"R">>)
    /\ response = TransportFailure
    /\ recs = <<>>
    /\ raised = FALSE
    /\ errors = {}
    /\ path = "none"
    /\ prev_recs = <<>>

InitExtract ==
    /\ SessionIdle
    /\ PromptIdle
    /\ rev \in Revisions
    /\ pc = "idle"
    /\ article_title \in RefTitles
    /\ response = TransportFailure
    /\ recs = <<>>
    /\ raised = FALSE
    /\ errors = {}
    /\ path = "none"
    /\ prev_recs = <<>>
    /\ IngestIdle
    /\ CacheIdle
    /\ VideoIdle

Run(resp) ==
    LET out == get_gemini_recommendations(rev, resp, article_title)
    IN  /\ response' = resp
        /\ recs' = out.recs
        /\ raised' = out.raised
        /\ errors' = out.errors
        /\ path' = out.path
        /\ prev_recs' = recs
        /\ UNCHANGED <<rev, article_title, ingestVars, cacheVars, videoVars, promptVars, sessionVars>>

\* the user asks for recommendations; the hosted model answers resp or fails
Recommend ==
    /\ pc = "idle"
    /\ \E resp \in ModelOutcomes : Run(resp)
    /\ pc' = "returned"

\* a second request to which the model answers the JSON serialization of the
\* list the first request returned
Resubmit ==
    /\ pc = "returned"
    /\ ~raised
    /\ Run([failed |-> FALSE, text |-> json_dumps(recs)])
    /\ pc' = "resubmitted"

NextExtract == Recommend \/ Resubmit

SpecExtract == InitExtract /\ [][NextExtract]_vars

-----------------------------------------------------------------------------
(* Claims about the recommendation extraction *)

Returned == pc \in {"returned", "resubmitted"} /\ ~raised

\* what the claims call a valid recommendation
ValidRecommendation(e) ==
    /\ e.isdict
    /\ e.title \notin {MISSING, NULLV, Str(<<>>)}
    /\ IsStr(e.link)
    /\ StartsWith(Tail(e.link), HTTP)

\* C1: whatever the model answered and whatever the reference title, the list
\* returned has at most 5 elements and none of them carries the reference
\* article's title, on the strict path and on the fallback path.
C1_AtMostFiveNoneReference ==
    Returned =>
        /\ Len(recs) <= RecLimit
        /\ \A k \in 1..Len(recs) : ~(recs[k].isdict /\ recs[k].title = article_title)

\* C2: every element of the returned list is a mapping with a non-empty title
\* and a link that starts with http, whichever parse path produced the list.
C2_EveryElementValid ==
    Returned => \A k \in 1..Len(recs) : ValidRecommendation(recs[k])

\* the text the revision parses, and whether both parses of it fail
Cleaned ==
    IF rev = "app" THEN app_clean_gemini_response(response.text)
    ELSE recommender_clean_gemini_response(response.text)

BothParsesFail ==
    /\ ~json_loads(Cleaned).ok
    /\ LET m == re_search_island(Cleaned) IN m = NoMatch \/ ~json_loads(m).ok

\* C3: for every text the model answers, the extraction does not raise, and
\* when the strict parse and the fallback parse both fail it returns the empty
\* list and reports a parse error.
C3_NeverRaises ==
    (pc # "idle" /\ ~response.failed) =>
        /\ ~raised
        /\ (strip(response.text) # <<>> /\ BothParsesFail) => (recs = <<>> /\ "parse" \in errors)

\* C4: a transport failure of the model call is caught: the request returns
\* no recommendation, shows an error, and raises nothing.
C4_TransportFailureCaught ==
    (pc # "idle" /\ response.failed) => (~raised /\ recs = <<>> /\ errors # {})

\* C10: extraction run on the JSON serialization of a list it returned (same
\* reference title) returns that list again.
C10_Idempotent ==
    pc = "resubmitted" => (~raised /\ recs = prev_recs)

\* the JSON array texts of valid recommendation objects among the model's answers
RecommendationArrayTexts ==
    {ModelJson(a) : a \in {b \in Arrays : \A k \in 1..Len(b) : ValidRecommendation(b[k])}}
    \cup {LiteralTicksJson}

Fences == {"fence_json", "fence_bare"}

\* C11: extraction of a JSON array text J wrapped in a leading and trailing
\* code fence, labelled json or bare, gives what extraction of J itself gives,
\* and the text that is parsed is J, unchanged.
C11_OnlyFenceStripped ==
    pc = "returned" =>
        \A f \in Fences : \A J \in RecommendationArrayTexts :
            response.text = Wrap(f, J) =>
                LET plain == get_gemini_recommendations(rev, [failed |-> FALSE, text |-> J],
                                                        article_title)
                IN  /\ raised = plain.raised
                    /\ recs = plain.recs
                    /\ Cleaned = J

\* C14: an empty completion is no error: the request returns no
\* recommendation, raises nothing and reports neither a parse error nor a
\* transport error.
C14_EmptyCompletionNoError ==
    (pc = "returned" /\ ~response.failed /\ response.text = <<>>) =>
        /\ ~raised
        /\ recs = <<>>
        /\ "parse" \notin errors
        /\ "generic" \notin errors

-----------------------------------------------------------------------------
(* Feed ingestion: fetch_news of src/app.py, fetch_rss_articles and           *)
(* fetch_all_news of src/recommender.py.  An article carries the feed and the *)
(* entry position it came from (feed 0 is the fallback search feed), which is *)
(* how "first occurrence" is told apart from a later one of the same title.   *)

PerSourceLimit == 10
FallbackLimit == 20
MaxEntries == 2

\* the categories modelled, each with its feed URLs in order
RSS_FEEDS ==
    [Technology |-> <<"nyt_technology", "theverge", "wired">>,
     Politics |-> <<"politico", "guardian_politics">>]

Categories == DOMAIN RSS_FEEDS

\* RSS_FEEDS of src/recommender.py
recommender_RSS_FEEDS == <<"nyt_world", "bbc_world", "aljazeera">>

Entry(t, b) == [title |-> t, bad |-> b]

PlainEntries == {Entry(Str(<<"A">>), FALSE), Entry(Str(<<"B">>), FALSE)}

\* a title with leading white space, an entry without title, an entry whose
\* processing raises
SpecialEntries ==
    {Entry(Str(<<" ", "A">>), FALSE), Entry(MISSING, FALSE), Entry(Str(<<"A">>), TRUE)}

IsPlainSeq(es) == Cardinality({k \in 1..Len(es) : es[k] \in SpecialEntries}) <= 1

EntrySeqs ==
    {es \in UNION {[1..n -> PlainEntries \cup SpecialEntries] : n \in 1..MaxEntries} :
        IsPlainSeq(es)}

LongFeed(n) == [k \in 1..n |-> Entry(Str(<<"T", ToString(k)>>), FALSE)]

Feed(x, b, ft, es) == [exc |-> x, bozo |-> b, ftitle |-> ft, entries |-> es]

FeedTitle == Str(<<"F">>)

\* what feedparser.parse may give for one URL: it raises, it flags the feed
\* (bozo_exception), it yields no entry, or it yields entries
FeedOutcomes ==
    {Feed(TRUE, FALSE, MISSING, <<>>),
     Feed(FALSE, TRUE, FeedTitle, <<Entry(Str(<<"A">>), FALSE)>>),
     Feed(FALSE, FALSE, FeedTitle, <<>>),
     Feed(FALSE, FALSE, MISSING, <<Entry(Str(<<"B">>), FALSE)>>),
     Feed(FALSE, FALSE, FeedTitle, LongFeed(PerSourceLimit + 1))}
    \cup {Feed(FALSE, FALSE, FeedTitle, es) : es \in EntrySeqs}

FallbackOutcomes ==
    {Feed(TRUE, FALSE, MISSING, <<>>),
     Feed(FALSE, FALSE, FeedTitle, <<>>),
     Feed(FALSE, TRUE, FeedTitle, <<Entry(Str(<<"A">>), FALSE)>>),
     Feed(FALSE, FALSE, FeedTitle, LongFeed(FallbackLimit + 1))}
    \cup {Feed(FALSE, FALSE, FeedTitle, es) : es \in EntrySeqs}

\* str.strip() of a title
RECURSIVE LStripUnits(_)
LStripUnits(u) == IF u # <<>> /\ Head(u) = " " THEN LStripUnits(Tail(u)) ELSE u

RECURSIVE RStripUnits(_)
RStripUnits(u) ==
    IF u # <<>> /\ u[Len(u)] = " " THEN RStripUnits(SubSeq(u, 1, Len(u) - 1)) ELSE u

title_strip(t) == Str(RStripUnits(LStripUnits(Tail(t))))

Article(t, src, f, k) == [title |-> t, source |-> src, feed |-> f, pos |-> k]

\* entry.get('title', '').strip()
app_title(e) == title_strip(IF e.title = MISSING THEN Str(<<>>) ELSE e.title)

\* feed.feed.get('title', 'Unknown Source')
source_name(o) == IF o.ftitle = MISSING THEN Str(<<"Unknown Source">>) ELSE o.ftitle

\* the leading entries of es that are processed before one raises
Processed(es) ==
    LET bads == {k \in 1..Len(es) : es[k].bad}
    IN  IF bads = {} THEN Len(es) ELSE SetMin(bads) - 1

EntriesRaise(es) == \E k \in 1..Len(es) : es[k].bad

\* drop_duplicates with keep='last': the last article of each title stays
drop_duplicates_keep_last(arts) ==
    LET keep == {k \in 1..Len(arts) :
                    \A j \in (k + 1)..Len(arts) : arts[j].title # arts[k].title}
        Nth(i) == CHOOSE k \in keep : Cardinality({j \in keep : j <= k}) = i
    IN  [i \in 1..Cardinality(keep) |-> arts[Nth(i)]]

\* df.drop_duplicates(subset=['title']): the first article of each title stays
drop_duplicates(arts) ==
    LET keep == {k \in 1..Len(arts) : \A j \in 1..(k - 1) : arts[j].title # arts[k].title}
        Nth(i) == CHOOSE k \in keep : Cardinality({j \in keep : j <= k}) = i
    IN  [i \in 1..Cardinality(keep) |-> arts[Nth(i)]]

\* the loop body without the [:10] on feed.entries
app_feed_step_no_limit(st, o, f) ==
    IF o.exc THEN [st EXCEPT !.failed = @ + 1]
    ELSE IF o.entries # <<>> /\ ~o.bozo
         THEN [st EXCEPT !.success = TRUE,
                         !.articles = @ \o [k \in 1..Processed(o.entries) |->
                                               Article(app_title(o.entries[k]), source_name(o), f, k)],
                         !.failed = IF EntriesRaise(o.entries) THEN @ + 1 ELSE @]
         ELSE [st EXCEPT !.failed = @ + 1]

\* one iteration of the loop over the category's feeds (src/app.py 177-199)
app_feed_step(st, o, f) ==
    IF o.exc THEN [st EXCEPT !.failed = @ + 1]
    ELSE IF o.entries # <<>> /\ ~o.bozo
         THEN LET es == FirstN(o.entries, PerSourceLimit)
                  n == Processed(es)
                  new == [k \in 1..n |-> Article(app_title(es[k]), source_name(o), f, k)]
              IN  [st EXCEPT !.success = TRUE,
                             !.articles = @ \o new,
                             !.failed = IF EntriesRaise(es) THEN @ + 1 ELSE @]
         ELSE [st EXCEPT !.failed = @ + 1]

RECURSIVE app_feed_loop(_, _, _)
app_feed_loop(st, outs, f) ==
    IF f > Len(outs) THEN st
    ELSE app_feed_loop(app_feed_step(st, outs[f], f), outs, f + 1)

\* f"...search?q={category}+health...": the search terms of the fallback query
fallback_query(c) == <<c, "health">>

\* fetch_news(category) with outs[f] the outcome of the f-th feed of the
\* category and fb the outcome of the fallback feed, should it be asked
fetch_news(c, outs, fb) ==
    LET st == app_feed_loop([articles |-> <<>>, success |-> FALSE, failed |-> 0], outs, 1)
        df == drop_duplicates(st.articles)
        base == [df |-> df, articles |-> st.articles, success |-> st.success,
                 failed |-> st.failed, notices |-> {}, queries |-> <<>>, raised |-> FALSE]
    IN  IF st.success THEN base
        ELSE LET es == IF fb.exc THEN <<>> ELSE FirstN(fb.entries, FallbackLimit)
                 arts == st.articles \o
                         [k \in 1..Processed(es) |->
                            Article(app_title(es[k]), Str(<<"Google News">>), 0, k)]
             IN  IF fb.exc \/ EntriesRaise(es)
                 THEN [base EXCEPT !.articles = arts,
                                   !.notices = {"fallback_warning", "fallback_error"},
                                   !.queries = <<fallback_query(c)>>]
                 ELSE [base EXCEPT !.df = drop_duplicates(arts),
                                   !.articles = arts,
                                   !.notices = {"fallback_warning"},
                                   !.queries = <<fallback_query(c)>>]

\* fetch_rss_articles without the print of its except clause
fetch_rss_articles_silent(o, f) ==
    IF o.exc \/ EntriesRaise(o.entries) \/ \E k \in 1..Len(o.entries) : o.entries[k].title = MISSING
    THEN [articles |-> <<>>, printed |-> FALSE]
    ELSE [articles |-> [k \in 1..Len(o.entries) |->
                          Article(o.entries[k].title, source_name(o), f, k)],
          printed |-> FALSE]

\* fetch_rss_articles(feed_url): every entry, title and link read as attributes;
\* any exception prints an error and gives no article of this feed
fetch_rss_articles(o, f) ==
    IF o.exc \/ EntriesRaise(o.entries) \/ \E k \in 1..Len(o.entries) : o.entries[k].title = MISSING
    THEN [articles |-> <<>>, printed |-> TRUE]
    ELSE [articles |-> [k \in 1..Len(o.entries) |->
                          Article(o.entries[k].title, source_name(o), f, k)],
          printed |-> FALSE]

RECURSIVE all_articles(_, _)
all_articles(outs, f) ==
    IF f > Len(outs) THEN <<>>
    ELSE fetch_rss_articles(outs[f], f).articles \o all_articles(outs, f + 1)

fetch_all_news(outs) ==
    [df |-> drop_duplicates(all_articles(outs, 1)),
     articles |-> all_articles(outs, 1),
     success |-> FALSE,
     failed |-> 0,
     notices |-> IF \E f \in 1..Len(outs) : fetch_rss_articles(outs[f], f).printed
                 THEN {"feed_error"} ELSE {},
     queries |-> <<>>,
     raised |-> FALSE]

NoFallback == Feed(TRUE, FALSE, MISSING, <<>>)

PrimarySuccess(outs) ==
    \E f \in 1..Len(outs) : ~outs[f].exc /\ outs[f].entries # <<>> /\ ~outs[f].bozo

Store(outs, fb, out) ==
    /\ feed_results' = outs
    /\ fallback_result' = fb
    /\ articles' = out.articles
    /\ news_df' = out.df
    /\ fetch_success' = out.success
    /\ failed_feeds_count' = out.failed
    /\ notices' = out.notices
    /\ fallback_queries' = out.queries
    /\ ingest_raised' = out.raised
    /\ ipc' = "done"

InitIngest ==
    /\ SessionIdle
    /\ PromptIdle
    /\ rev \in Revisions
    /\ ExtractIdle
    /\ category \in (IF rev = "app" THEN Categories ELSE {"none"})
    /\ ipc = "idle"
    /\ feed_results = <<>>
    /\ fallback_result = NoFallback
    /\ articles = <<>>
    /\ news_df = <<>>
    /\ fetch_success = FALSE
    /\ failed_feeds_count = 0
    /\ notices = {}
    /\ fallback_queries = <<>>
    /\ ingest_raised = FALSE
    /\ CacheIdle
    /\ VideoIdle

\* src/app.py: the category's feeds answer outs; the fallback feed answers fb
FetchNews ==
    /\ rev = "app"
    /\ ipc = "idle"
    /\ \E outs \in [1..Len(RSS_FEEDS[category]) -> FeedOutcomes] :
         \E fb \in (IF PrimarySuccess(outs) THEN {NoFallback} ELSE FallbackOutcomes) :
            Store(outs, fb, fetch_news(category, outs, fb))
    /\ UNCHANGED <<extractVars, category, cacheVars, videoVars, promptVars, sessionVars>>

\* src/recommender.py
FetchAllNews ==
    /\ rev = "recommender"
    /\ ipc = "idle"
    /\ \E outs \in [1..Len(recommender_RSS_FEEDS) -> FeedOutcomes] :
         Store(outs, NoFallback, fetch_all_news(outs))
    /\ UNCHANGED <<extractVars, category, cacheVars, videoVars, promptVars, sessionVars>>

NextIngest == FetchNews \/ FetchAllNews

SpecIngest == InitIngest /\ [][NextIngest]_vars

-----------------------------------------------------------------------------
(* Claims about ingestion *)

Titles(arts) == {arts[k].title : k \in 1..Len(arts)}

NoDuplicateTitle(arts) ==
    \A j, k \in 1..Len(arts) : arts[j].title = arts[k].title => j = k

\* a comes no later than b in feed-then-entry order
NotAfter(a, b) == a.feed < b.feed \/ (a.feed = b.feed /\ a.pos <= b.pos)

\* C5: the corpus an ingestion returns, from the primary feeds or from the
\* fallback feed, holds no two articles of the same title, and the article
\* kept for a title is the first one of that title in feed-then-entry order.
C5_CorpusDeduplicated ==
    ipc = "done" =>
        /\ NoDuplicateTitle(news_df)
        /\ \A k \in 1..Len(news_df) :
             /\ \E j \in 1..Len(articles) : articles[j] = news_df[k]
             /\ \A j \in 1..Len(articles) :
                  articles[j].title = news_df[k].title => NotAfter(news_df[k], articles[j])

\* two feeds gave an entry of the same title and the corpus keeps one of them
C5_Witness ==
    /\ ipc = "done"
    /\ news_df # <<>>
    /\ \E i, j \in 1..Len(articles) :
         articles[i].title = articles[j].title /\ articles[i].feed < articles[j].feed

\* C6: fetch_news never raises; it asks the fallback feed exactly when no
\* primary feed was fetched, at most once, for the category name; the corpus
\* is then the deduplicated fallback entries, or empty if the fallback fails
\* or yields nothing.
C6_FallbackOnlyWhenNoPrimary ==
    (ipc = "done" /\ rev = "app") =>
        /\ ~ingest_raised
        /\ (fallback_queries # <<>>) <=> ~PrimarySuccess(feed_results)
        /\ Len(fallback_queries) <= 1
        /\ \A k \in 1..Len(fallback_queries) : fallback_queries[k] = <<category>>
        /\ ~PrimarySuccess(feed_results) =>
             /\ NoDuplicateTitle(news_df)
             /\ \A k \in 1..Len(news_df) : news_df[k].feed = 0
             /\ Titles(news_df) =
                  IF fallback_result.exc \/ EntriesRaise(FirstN(fallback_result.entries, FallbackLimit))
                  THEN {}
                  ELSE {app_title(FirstN(fallback_result.entries, FallbackLimit)[k]) :
                          k \in 1..Len(FirstN(fallback_result.entries, FallbackLimit))}

\* the feed passes the test of src/app.py: entries and no bozo_exception
FeedParsed(o) == ~o.exc /\ ~o.bozo /\ o.entries # <<>>

Malformed(e) == e.bad \/ e.title = MISSING

\* the feed fails to parse, returns no entries, or holds a malformed entry
FeedFailed(o) == ~FeedParsed(o) \/ \E k \in 1..Len(o.entries) : Malformed(o.entries[k])

Present(f, k) == \E j \in 1..Len(articles) : articles[j].feed = f /\ articles[j].pos = k

FeedNumbers == 1..Len(feed_results)

InFeedOrder == \A i, j \in 1..Len(articles) : i < j => NotAfter(articles[i], articles[j])

\* C15 as stated: when some primary feed succeeds, the articles are the first
\* 10 entries at most of each feed that did not fail, nothing comes from a feed
\* that failed to parse, was empty or held a malformed entry, no entry of
\* another feed is lost and the batch is not aborted.
C15_FirstTenOfSuccessfulFeeds ==
    (ipc = "done" /\ PrimarySuccess(feed_results)) =>
        /\ ~ingest_raised
        /\ \A j \in 1..Len(articles) :
             /\ articles[j].feed \in FeedNumbers
             /\ ~FeedFailed(feed_results[articles[j].feed])
             /\ articles[j].pos <= 10
        /\ \A f \in FeedNumbers : \A k \in 1..Len(feed_results[f].entries) :
             (~FeedFailed(feed_results[f]) /\ k <= 10) => Present(f, k)

\* entry k of feed o is taken by src/app.py: the feed parsed, k is among its
\* first 10 entries and no entry up to k raised
AppTakes(o, k) ==
    /\ FeedParsed(o)
    /\ k \in 1..Len(o.entries)
    /\ k <= 10
    /\ \A i \in 1..k : ~o.entries[i].bad

\* entry k of feed o is taken by src/recommender.py: reading the feed and
\* every one of its entries raised nothing
RecommenderTakes(o, k) ==
    /\ ~o.exc
    /\ k \in 1..Len(o.entries)
    /\ \A i \in 1..Len(o.entries) : ~Malformed(o.entries[i])

Takes(o, k) == IF rev = "app" THEN AppTakes(o, k) ELSE RecommenderTakes(o, k)

\* C15: no ingestion raises and the articles come in feed-then-entry order.
\* In src/app.py, when some primary feed succeeds, they are exactly the
\* entries among the first 10 of each feed that parsed with entries and without
\* bozo_exception, up to the first entry whose processing raises, if any; an
\* entry without title is kept with the empty title.  In src/recommender.py
\* they are all the entries, without limit, of each feed whose reading raised
\* nothing, and a feed with an entry without title or link contributes nothing.
\* In both, a feed that contributes nothing takes no entry away from another.
C15_EntriesTaken ==
    (ipc = "done" /\ (rev = "app" => PrimarySuccess(feed_results))) =>
        /\ ~ingest_raised
        /\ InFeedOrder
        /\ \A j \in 1..Len(articles) :
             /\ articles[j].feed \in FeedNumbers
             /\ Takes(feed_results[articles[j].feed], articles[j].pos)
        /\ \A f \in FeedNumbers : \A k \in 1..Len(feed_results[f].entries) :
             Takes(feed_results[f], k) => Present(f, k)

C15_Witness ==
    /\ ipc = "done"
    /\ rev = "app"
    /\ \E f \in FeedNumbers : feed_results[f].exc
    /\ \E f \in FeedNumbers :
         /\ Len(feed_results[f].entries) = PerSourceLimit + 1
         /\ Present(f, PerSourceLimit)

\* C16 as stated: a feed that fails leaves a notice, also when another feed
\* succeeds and the fallback is not asked.
C16_FailureSurfaced ==
    ipc = "done" =>
        ((\E f \in FeedNumbers : FeedFailed(feed_results[f])) => notices # {})

\* the feeds that src/app.py counts as failed
AppCountsFailed(o) ==
    ~FeedParsed(o) \/ \E k \in 1..Len(o.entries) : k <= 10 /\ o.entries[k].bad

\* C16: src/app.py counts a failed feed in failed_feeds_count and shows nothing
\* for it; its only notices are the warning that the fallback is used, shown
\* exactly when no primary feed succeeded, and the error that the fallback
\* failed too.  src/recommender.py prints an error exactly when reading a feed
\* or one of its entries raises; an empty feed leaves no notice.
C16_NoticesOfIngestion ==
    ipc = "done" =>
        /\ rev = "app" =>
              /\ notices \subseteq {"fallback_warning", "fallback_error"}
              /\ "fallback_warning" \in notices <=> ~PrimarySuccess(feed_results)
              /\ "fallback_error" \in notices => "fallback_warning" \in notices
              /\ failed_feeds_count =
                    Cardinality({f \in FeedNumbers : AppCountsFailed(feed_results[f])})
        /\ rev = "recommender" =>
              /\ notices \subseteq {"feed_error"}
              /\ "feed_error" \in notices <=>
                    \E f \in FeedNumbers :
                       \/ feed_results[f].exc
                       \/ \E k \in 1..Len(feed_results[f].entries) :
                             Malformed(feed_results[f].entries[k])

C16_Witness ==
    /\ ipc = "done"
    /\ rev = "app"
    /\ PrimarySuccess(feed_results)
    /\ \E f \in FeedNumbers : feed_results[f].exc
    /\ failed_feeds_count >= 1
    /\ notices = {}

-----------------------------------------------------------------------------
(* The corpus cache: @st.cache_data(ttl=3600) on fetch_news, called by main   *)
(* on every run of the script.  An entry is keyed by the argument, expires    *)
(* TTL seconds after it was stored, and is replaced by the next computation.  *)

TTL == 3600
MaxTicks == 3

TickSeconds == 1500

\* a cache whose entries never expire
cache_hit_no_expiry(e, t) == e.present

\* the entry e answers a call at time t
cache_hit(e, t) == e.present /\ t - e.stored_at < TTL

cache_store(df, t) == [present |-> TRUE, df |-> df, stored_at |-> t]

\* under the cache a feed either fails or gives one entry
CacheFeedOutcomes ==
    {Feed(TRUE, FALSE, MISSING, <<>>),
     Feed(FALSE, FALSE, FeedTitle, <<Entry(Str(<<"A">>), FALSE)>>)}

CacheFallbackOutcomes ==
    {Feed(TRUE, FALSE, MISSING, <<>>),
     Feed(FALSE, FALSE, FeedTitle, <<Entry(Str(<<"B">>), FALSE)>>)}

CachedCategories == Categories

InitCache ==
    /\ SessionIdle
    /\ PromptIdle
    /\ rev = "app"
    /\ ExtractIdle
    /\ IngestIdle
    /\ now = 0
    /\ cache = [c \in CachedCategories |-> NoEntry]
    /\ ingestions = [c \in CachedCategories |-> 0]
    /\ last_call = [c \in CachedCategories |-> [at |-> -1, ingested |-> FALSE]]
    /\ call = NoCall
    /\ VideoIdle

Tick ==
    /\ now < MaxTicks * TickSeconds
    /\ now' = now + TickSeconds
    /\ UNCHANGED <<extractVars, ingestVars, videoVars, cache, ingestions, last_call, call, promptVars, sessionVars>>

\* news_df = fetch_news(category) of main: the stored corpus on a hit, else a
\* run of fetch_news whose result replaces the entry
GetOrFetch(c) ==
    LET e == cache[c]
        rec(ing, df) ==
            [category |-> c, at |-> now, prev_at |-> last_call[c].at,
             prev_ingested |-> last_call[c].ingested, ingested |-> ing,
             before |-> e, count_before |-> ingestions[c], df |-> df]
    IN  /\ IF cache_hit(e, now)
           THEN /\ call' = rec(FALSE, e.df)
                /\ UNCHANGED <<cache, ingestions, promptVars, sessionVars>>
           ELSE \E outs \in [1..Len(RSS_FEEDS[c]) -> CacheFeedOutcomes] :
                  \E fb \in (IF PrimarySuccess(outs) THEN {NoFallback}
                             ELSE CacheFallbackOutcomes) :
                     LET df == fetch_news(c, outs, fb).df
                     IN  /\ call' = rec(TRUE, df)
                         /\ cache' = [cache EXCEPT ![c] = cache_store(df, now)]
                         /\ ingestions' = [ingestions EXCEPT ![c] = @ + 1]
        /\ last_call' = [last_call EXCEPT ![c] = [at |-> now, ingested |-> ~cache_hit(e, now)]]
        /\ UNCHANGED <<extractVars, ingestVars, videoVars, now, promptVars, sessionVars>>

CachedFetchNews == \E c \in CachedCategories : GetOrFetch(c)

NextCache == Tick \/ CachedFetchNews

SpecCache == InitCache /\ [][NextCache]_vars

-----------------------------------------------------------------------------
(* Claims about the corpus cache *)

Called == call.category # "none"

Fresh(e, t) == e.present /\ t - e.stored_at < TTL

\* C7, as claimed: of two calls for a category less than TTL apart at most one
\* runs the ingestion and the second returns the stored corpus unchanged; a
\* call after the TTL runs a new ingestion whose result replaces the entry.
C7_WithinTTLOfPreviousCall ==
    Called =>
        /\ (call.prev_at >= 0 /\ call.at - call.prev_at < TTL) =>
             /\ ~(call.ingested /\ call.prev_ingested)
             /\ call.df = call.before.df
        /\ ~Fresh(call.before, call.at) =>
             /\ call.ingested
             /\ cache[call.category] = [present |-> TRUE, df |-> call.df, stored_at |-> call.at]

\* C7, amended: of two calls for a category less than TTL apart at most one
\* runs the ingestion; a call less than TTL after the ingestion that stored
\* the category's corpus runs no ingestion and returns the stored corpus
\* unchanged, empty or not; any other call runs a new ingestion whose result
\* replaces the entry, the only one held for the category.
C7_WithinTTLOfStore ==
    Called =>
        /\ (call.prev_at >= 0 /\ call.at - call.prev_at < TTL) =>
             ~(call.ingested /\ call.prev_ingested)
        /\ Fresh(call.before, call.at) =>
             /\ ~call.ingested
             /\ call.df = call.before.df
             /\ cache[call.category] = call.before
             /\ ingestions[call.category] = call.count_before
        /\ ~Fresh(call.before, call.at) =>
             /\ call.ingested
             /\ cache[call.category] = [present |-> TRUE, df |-> call.df, stored_at |-> call.at]
             /\ ingestions[call.category] = call.count_before + 1

\* a second call, later than the first and less than TTL after it, answered
\* from the cache with an empty stored corpus
C7_Witness ==
    /\ Called
    /\ call.prev_at >= 0
    /\ call.at > call.prev_at
    /\ call.at - call.prev_at < TTL
    /\ ~call.ingested
    /\ call.df = <<>>
    /\ ingestions[call.category] = 1

-----------------------------------------------------------------------------
(* The video gateway and its callers: fetch_youtube_videos and                *)
(* get_video_recommendations of src/app.py, fetch_youtube_videos and          *)
(* get_alternative_video_recommendations of src/recommender.py.               *)

AppMaxResults == 3
AppMoreResults == 1
EnoughVideos == 3
RecommenderMaxResults == 5
RecommenderKeywordLimit == 5
MaxKeywords == 3
LongKeywordLen == 6
MaxApiItems == 6

\* `if not youtube_api_key`: None and the empty string count as no key
HasKey(key) == key \notin {MISSING, Str(<<>>)}

KeyVals == {MISSING, Str(<<>>), Str(<<"K">>)}

\* urllib.parse.quote_plus over the units of a string
quote_plus(units) ==
    [k \in 1..Len(units) |->
        IF units[k] = " " THEN "+" ELSE IF units[k] = "&" THEN "%26" ELSE units[k]]

\* urlencode({'search_query': q})
urlencode_search_query(q) == <<"search_query", "=">> \o quote_plus(Tail(q))

PlaceholderThumbnail == Str(<<"https://www.youtube.com/img/desktop/yt_1200.png">>)

SearchLink(q) == Str(<<"https://www.youtube.com/results?">> \o urlencode_search_query(q))

Placeholder(q, description) ==
    [title |-> Str(<<"Videos about: ">> \o Tail(q)),
     description |-> description,
     thumbnail |-> PlaceholderThumbnail,
     link |-> SearchLink(q),
     video_id |-> MISSING]

\* the k-th item of a successful search for q
ApiVideo(q, k) ==
    [title |-> Str(<<"item title", ToString(k)>>),
     description |-> Str(<<"item description", ToString(k)>>),
     thumbnail |-> Str(<<"item thumbnail", ToString(k)>>),
     link |-> Str(<<"https://www.youtube.com/watch?v=", "id", ToString(k)>> \o Tail(q)),
     video_id |-> Str(<<"id", ToString(k)>> \o Tail(q))]

Api(kind, n) == [kind |-> kind, n |-> n]

\* requests.get raises, answers another status than 200, answers items of which
\* one lacks a field, or answers n well-formed items
ApiOutcomes ==
    {Api("exception", 0), Api("status", 0), Api("malformed", 1)}
    \cup {Api("ok", n) : n \in {0, 1, 2, AppMaxResults, RecommenderMaxResults, MaxApiItems}}

NoApi == Api("exception", 0)

Gateway(v, e, net) == [videos |-> v, errors |-> e, network |-> net]

\* the request to the search API and the mapping of its items
search_api(query, api) ==
    IF api.kind = "ok"
    THEN Gateway([k \in 1..api.n |-> ApiVideo(query, k)], {}, TRUE)
    ELSE Gateway(<<>>, {"youtube_error"}, TRUE)

\* the gateway of src/app.py without its no-key branch
app_fetch_youtube_videos_no_placeholder(query, max_results, key, api) ==
    search_api(query, api)

\* src/app.py: without key, one search-link placeholder
app_fetch_youtube_videos(query, max_results, key, api) ==
    IF ~HasKey(key)
    THEN Gateway(<<Placeholder(query, Str(<<"Search results on YouTube">>))>>, {}, FALSE)
    ELSE search_api(query, api)

\* src/recommender.py: without key, a printed notice and nothing
recommender_fetch_youtube_videos(query, max_results, key, api) ==
    IF ~HasKey(key) THEN Gateway(<<>>, {"no_key"}, FALSE)
    ELSE search_api(query, api)

fetch_youtube_videos(r, query, max_results, key, api) ==
    IF r = "app" THEN app_fetch_youtube_videos(query, max_results, key, api)
    ELSE recommender_fetch_youtube_videos(query, max_results, key, api)

GatewayCall(query, max_results, g) ==
    [query |-> query, max_results |-> max_results, returned |-> Len(g.videos),
     network |-> g.network]

\* the keyword list: the article title when the model's JSON is no list or an
\* empty one; raised when the model call or json.loads raises
keywords_of(r, resp, title) ==
    IF resp.failed THEN [raised |-> TRUE, list |-> <<>>]
    ELSE LET cleaned == IF r = "app" THEN app_clean_gemini_response(resp.text)
                        ELSE recommender_clean_gemini_response(resp.text)
             parsed == json_loads(cleaned)
         IN  IF ~parsed.ok THEN [raised |-> TRUE, list |-> <<>>]
             ELSE IF ~parsed.islist \/ parsed.items = <<>>
                  THEN [raised |-> FALSE, list |-> <<title>>]
             ELSE [raised |-> FALSE,
                   list |-> [k \in 1..Len(parsed.items) |-> parsed.items[k].val]]

Videos(v, c, e, kws) == [videos |-> v, calls |-> c, errors |-> e, keywords |-> kws]

\* the loop over keywords[1:] without its break
RECURSIVE app_more_videos_no_break(_, _, _, _, _)
app_more_videos_no_break(kws, i, acc, key, apis) ==
    IF i > Len(kws) THEN acc
    ELSE LET g == app_fetch_youtube_videos(kws[i], AppMoreResults, key, apis[i])
         IN  app_more_videos_no_break(kws, i + 1,
                 Videos(acc.videos \o g.videos,
                        Append(acc.calls, GatewayCall(kws[i], AppMoreResults, g)),
                        acc.errors \cup g.errors, kws),
                 key, apis)

\* the loop over keywords[1:] of get_video_recommendations
RECURSIVE app_more_videos(_, _, _, _, _)
app_more_videos(kws, i, acc, key, apis) ==
    IF i > Len(kws) \/ Len(acc.videos) >= EnoughVideos THEN acc
    ELSE LET g == app_fetch_youtube_videos(kws[i], AppMoreResults, key, apis[i])
         IN  app_more_videos(kws, i + 1,
                 Videos(acc.videos \o g.videos,
                        Append(acc.calls, GatewayCall(kws[i], AppMoreResults, g)),
                        acc.errors \cup g.errors, kws),
                 key, apis)

app_get_video_recommendations(title, resp, key, apis) ==
    LET kw == keywords_of("app", resp, title)
    IN  IF kw.raised
        THEN LET g == app_fetch_youtube_videos(title, AppMaxResults, key, apis[1])
             IN  Videos(g.videos, <<GatewayCall(title, AppMaxResults, g)>>,
                        g.errors \cup {"video_generic"}, <<title>>)
        ELSE LET g == app_fetch_youtube_videos(kw.list[1], AppMaxResults, key, apis[1])
             IN  app_more_videos(kw.list, 2,
                     Videos(g.videos, <<GatewayCall(kw.list[1], AppMaxResults, g)>>,
                            g.errors, kw.list),
                     key, apis)

get_alternative_video_recommendations(title, resp, key, apis) ==
    LET kw == keywords_of("recommender", resp, title)
    IN  IF kw.raised
        THEN Videos(<<Placeholder(title, Str(<<"Related videos on YouTube">>))>>, <<>>,
                    {"video_generic"}, <<title>>)
        ELSE IF HasKey(key)
        THEN LET g == recommender_fetch_youtube_videos(kw.list[1], RecommenderMaxResults,
                                                       key, apis[1])
             IN  Videos(g.videos, <<GatewayCall(kw.list[1], RecommenderMaxResults, g)>>,
                        g.errors, kw.list)
        ELSE LET ks == FirstN(kw.list, RecommenderKeywordLimit)
             IN  Videos([k \in 1..Len(ks) |->
                           Placeholder(ks[k], Str(<<"Search results for ">> \o Tail(ks[k])))],
                        <<>>, {}, kw.list)

video_recommendations(r, title, resp, key, apis) ==
    IF r = "app" THEN app_get_video_recommendations(title, resp, key, apis)
    ELSE get_alternative_video_recommendations(title, resp, key, apis)

Queries == {Str(<<"election">>), Str(<<"new", " ", "law">>), Str(<<"a", "&", "b">>)}

KeywordSeqs ==
    {ks \in UNION {[1..n -> Queries] : n \in 1..MaxKeywords} :
        \A i, j \in 1..Len(ks) : ks[i] = ks[j] => i = j}

KeywordJson(ks) == json_dumps([k \in 1..Len(ks) |-> ScalarElem(ks[k])])

\* a list longer than the prompt asks for
LongKeywords == [k \in 1..LongKeywordLen |-> Str(<<"k", ToString(k)>>)]

\* the API's answers call by call; beyond MaxKeywords calls the last one repeats
ApiSeqs ==
    {[k \in 1..LongKeywordLen |-> f[IF k < MaxKeywords THEN k ELSE MaxKeywords]] :
        f \in [1..MaxKeywords -> ApiOutcomes]}

KeywordOutcomes ==
    {TransportFailure, [failed |-> FALSE, text |-> KeywordJson(LongKeywords)]}
    \cup {[failed |-> FALSE, text |-> t] :
            t \in {Prose, <<NULLV>>, <<LBRACK, RBRACK>>,
                   Wrap("fence_json", KeywordJson(<<Str(<<"election">>)>>))}}
    \cup {[failed |-> FALSE, text |-> KeywordJson(ks)] : ks \in KeywordSeqs}

InitVideo ==
    /\ SessionIdle
    /\ PromptIdle
    /\ rev \in Revisions
    /\ ExtractIdle
    /\ IngestIdle
    /\ CacheIdle
    /\ vpc = "idle"
    /\ youtube_api_key \in KeyVals
    /\ keyword_response = TransportFailure
    /\ api_results = <<>>
    /\ keywords = <<>>
    /\ gateway_calls = <<>>
    /\ videos = <<>>
    /\ video_errors = {}

\* one call of the gateway with a keyword
FetchYoutubeVideos ==
    /\ vpc = "idle"
    /\ \E q \in Queries :
         \E api \in (IF HasKey(youtube_api_key) THEN ApiOutcomes ELSE {NoApi}) :
           \E m \in (IF rev = "app" THEN {AppMaxResults, AppMoreResults}
                     ELSE {RecommenderMaxResults}) :
             LET g == fetch_youtube_videos(rev, q, m, youtube_api_key, api)
             IN  /\ api_results' = <<api>>
                 /\ keywords' = <<q>>
                 /\ gateway_calls' = <<GatewayCall(q, m, g)>>
                 /\ videos' = g.videos
                 /\ video_errors' = g.errors
    /\ vpc' = "fetched"
    /\ UNCHANGED <<extractVars, ingestVars, cacheVars, youtube_api_key, keyword_response, promptVars, sessionVars>>

\* the video half of a recommendation request
GetVideoRecommendations ==
    /\ vpc = "idle"
    /\ \E resp \in KeywordOutcomes :
         \E apis \in (IF HasKey(youtube_api_key) THEN ApiSeqs
                      ELSE {[k \in 1..LongKeywordLen |-> NoApi]}) :
            LET out == video_recommendations(rev, article_title, resp, youtube_api_key, apis)
            IN  /\ keyword_response' = resp
                /\ api_results' = SubSeq(apis, 1, Len(out.calls))
                /\ keywords' = out.keywords
                /\ gateway_calls' = out.calls
                /\ videos' = out.videos
                /\ video_errors' = out.errors
    /\ vpc' = "recommended"
    /\ UNCHANGED <<extractVars, ingestVars, cacheVars, youtube_api_key, promptVars, sessionVars>>

NextVideo == FetchYoutubeVideos \/ GetVideoRecommendations

SpecVideo == InitVideo /\ [][NextVideo]_vars

-----------------------------------------------------------------------------
(* Claims about the video gateway and its callers.                            *)

\* the units of the link after the search page's address spell search_query=
\* and the keyword, a space as + and an ampersand as %26
EncodesKeyword(link, q) ==
    LET head == <<"str", "https://www.youtube.com/results?", "search_query", "=">>
        kw == Tail(q)
    IN  /\ Len(link) = Len(head) + Len(kw)
        /\ SubSeq(link, 1, Len(head)) = head
        /\ \A k \in 1..Len(kw) :
             link[Len(head) + k] =
                 CASE kw[k] = " " -> "+" [] kw[k] = "&" -> "%26" [] OTHER -> kw[k]

IsPlaceholderFor(v, q) ==
    /\ EncodesKeyword(v.link, q)
    /\ v.thumbnail = Str(<<"https://www.youtube.com/img/desktop/yt_1200.png">>)

NoNetwork == \A k \in 1..Len(gateway_calls) : ~gateway_calls[k].network

\* C8 as stated: without a video API key every gateway call returns exactly
\* one placeholder for the keyword, makes no network call and reports no error.
C8_OnePlaceholderWithoutKey ==
    (vpc = "fetched" /\ ~HasKey(youtube_api_key)) =>
        /\ Len(videos) = 1
        /\ IsPlaceholderFor(videos[1], keywords[1])
        /\ NoNetwork
        /\ video_errors = {}

\* C8: without a video API key no gateway call reaches the network; the gateway
\* of src/app.py returns exactly one placeholder for the keyword and no error,
\* the gateway of src/recommender.py returns the empty sequence with a printed
\* notice, and its caller synthesizes one placeholder per keyword instead.
C8_NoKeyGateway ==
    /\ (vpc = "fetched" /\ ~HasKey(youtube_api_key)) =>
          /\ NoNetwork
          /\ rev = "app" =>
                /\ Len(videos) = 1
                /\ IsPlaceholderFor(videos[1], keywords[1])
                /\ video_errors = {}
          /\ rev = "recommender" =>
                /\ videos = <<>>
                /\ video_errors = {"no_key"}
    /\ (vpc = "recommended" /\ ~HasKey(youtube_api_key)) =>
          /\ NoNetwork
          /\ Len(videos) >= 1
          /\ rev = "app" =>
                /\ Len(gateway_calls) = Len(videos)
                /\ \A k \in 1..Len(videos) : IsPlaceholderFor(videos[k], keywords[k])
          /\ rev = "recommender" =>
                /\ gateway_calls = <<>>
                /\ \A k \in 1..Len(videos) : IsPlaceholderFor(videos[k], keywords[k])

C8_Witness ==
    /\ vpc = "fetched"
    /\ rev = "app"
    /\ youtube_api_key = MISSING
    /\ keywords = <<Str(<<"a", "&", "b">>)>>
    /\ Len(videos) = 1

RECURSIVE Returned_upto(_)
Returned_upto(n) == IF n = 0 THEN 0 ELSE Returned_upto(n - 1) + gateway_calls[n].returned

WithinMaxResults ==
    \A k \in 1..Len(gateway_calls) : gateway_calls[k].returned <= gateway_calls[k].max_results

InListOrder == \A k \in 1..Len(gateway_calls) : gateway_calls[k].query = keywords[k]

\* every call but the first was made with fewer than three results in hand,
\* and keywords are left over only when three are in hand
StopsAtThree ==
    /\ Len(gateway_calls) >= 1
    /\ Len(gateway_calls) <= Len(keywords)
    /\ \A k \in 2..Len(gateway_calls) : Returned_upto(k - 1) < 3
    /\ Len(gateway_calls) < Len(keywords) => Returned_upto(Len(gateway_calls)) >= 3

\* C9 as stated: the orchestrator queries keyword by keyword in list order,
\* stops once three results are in hand or the keywords are exhausted, and
\* returns at most three results when no call exceeds its max_results.
C9_AtMostThree ==
    vpc = "recommended" =>
        /\ InListOrder
        /\ StopsAtThree
        /\ WithinMaxResults => Len(videos) <= 3

\* C9: get_video_recommendations of src/app.py queries keyword by keyword in
\* list order, the first with max_results 3 and the others with 1, stops once
\* three results are in hand or the keywords are exhausted, and returns at most
\* three when no call exceeds its max_results. The orchestrator of
\* src/recommender.py makes at most one gateway call, for the first keyword
\* with max_results 5, and returns at most five results under the same proviso:
\* with a key that call's results, without one a placeholder for each of the
\* first five keywords.
C9_OrchestratorBounds ==
    vpc = "recommended" =>
        /\ rev = "app" =>
              /\ InListOrder
              /\ StopsAtThree
              /\ Len(videos) = Returned_upto(Len(gateway_calls))
              /\ \A k \in 1..Len(gateway_calls) :
                    gateway_calls[k].max_results = (IF k = 1 THEN 3 ELSE 1)
              /\ WithinMaxResults => Len(videos) <= 3
        /\ rev = "recommender" =>
              /\ Len(gateway_calls) <= 1
              /\ InListOrder
              /\ \A k \in 1..Len(gateway_calls) : gateway_calls[k].max_results = 5
              /\ gateway_calls # <<>> <=>
                    (HasKey(youtube_api_key) /\ "video_generic" \notin video_errors)
              /\ gateway_calls # <<>> => Len(videos) = gateway_calls[1].returned
              /\ gateway_calls = <<>> =>
                    /\ Len(videos) = (IF Len(keywords) < 5 THEN Len(keywords) ELSE 5)
                    /\ \A k \in 1..Len(videos) : IsPlaceholderFor(videos[k], keywords[k])
              /\ WithinMaxResults => Len(videos) <= 5

C9_Witness ==
    /\ vpc = "recommended"
    /\ rev = "app"
    /\ HasKey(youtube_api_key)
    /\ Len(keywords) = LongKeywordLen
    /\ Len(gateway_calls) = 4
    /\ Len(videos) = 3
    /\ WithinMaxResults

-----------------------------------------------------------------------------
(* The sample of the corpus that get_gemini_recommendations serializes into   *)
(* the prompt.  A row is known by its label; DataFrame.sample draws without   *)
(* replacement and in a random order.                                         *)

AppSampleLimit == 30
RecommenderSampleLimit == 25
MaxExcess == 2

SampleLimit(r) == IF r = "app" THEN AppSampleLimit ELSE RecommenderSampleLimit

Min(a, b) == IF a < b THEN a ELSE b

\* a sample size that is the corpus size whatever the limit
sample_size_no_limit(r, n) == n

\* sample_size = min(30, len(news_df)), 25 in src/recommender.py
sample_size(r, n) == Min(SampleLimit(r), n)

\* the orders in which the drawn rows come out
Orders == {"original", "reversed", "rotated"}

Reorder(s, order) ==
    CASE order = "original" -> s
      [] order = "reversed" -> [k \in 1..Len(s) |-> s[Len(s) + 1 - k]]
      [] OTHER -> IF s = <<>> THEN s ELSE Tail(s) \o <<Head(s)>>

\* news_df.sample(n=sample_size) if len(news_df) > sample_size else news_df
sample(r, df, left_out, order) ==
    IF Len(df) > sample_size(r, Len(df))
    THEN Reorder(SelectSeq(df, LAMBDA x : x \notin left_out), order)
    ELSE df

\* the sets of d rows out of n that a draw leaves out
RECURSIVE LeftOuts(_, _)
LeftOuts(n, d) ==
    IF d = 0 THEN {{}}
    ELSE UNION {{D \cup {x} : x \in {y \in 1..n : \A z \in D : y > z}} :
                   D \in LeftOuts(n, d - 1)}

InitPrompt ==
    /\ SessionIdle
    /\ rev \in Revisions
    /\ ExtractIdle
    /\ IngestIdle
    /\ CacheIdle
    /\ VideoIdle
    /\ ppc = "idle"
    /\ corpus = <<>>
    /\ news_sample = <<>>

\* the prompt is built for a corpus of n rows
BuildPrompt ==
    /\ ppc = "idle"
    /\ \E n \in 0..(SampleLimit(rev) + MaxExcess) :
         LET df == [k \in 1..n |-> k]
         IN  \E left_out \in LeftOuts(n, n - sample_size(rev, n)) :
               \E order \in Orders :
                  /\ corpus' = df
                  /\ news_sample' = sample(rev, df, left_out, order)
    /\ ppc' = "built"
    /\ UNCHANGED <<extractVars, ingestVars, cacheVars, videoVars, sessionVars>>

NextPrompt == BuildPrompt

SpecPrompt == InitPrompt /\ [][NextPrompt]_vars

NoRowTwice(s) == \A i, j \in 1..Len(s) : s[i] = s[j] => i = j

RowsOf(s) == {s[k] : k \in 1..Len(s)}

\* C12 as stated: the rows serialized into the prompt are min(30, n) rows of the
\* corpus, none twice, and the whole corpus in its order when n <= 30.
C12_SampleOfThirty ==
    ppc = "built" =>
        /\ Len(news_sample) = Min(30, Len(corpus))
        /\ NoRowTwice(news_sample)
        /\ RowsOf(news_sample) \subseteq RowsOf(corpus)
        /\ Len(corpus) <= 30 => news_sample = corpus

\* C12: the rows serialized into the prompt are min(L, n) rows of the corpus,
\* none twice, and the whole corpus in its order when n <= L, where L is 30 in
\* src/app.py and 25 in src/recommender.py.
C12_SampleOfLimit ==
    ppc = "built" =>
        LET L == IF rev = "app" THEN 30 ELSE 25
        IN  /\ Len(news_sample) = Min(L, Len(corpus))
            /\ NoRowTwice(news_sample)
            /\ RowsOf(news_sample) \subseteq RowsOf(corpus)
            /\ Len(corpus) <= L => news_sample = corpus

C12_Witness ==
    /\ ppc = "built"
    /\ rev = "app"
    /\ Len(corpus) = 32
    /\ Len(news_sample) = 30
    /\ news_sample[1] > news_sample[2]

-----------------------------------------------------------------------------
(* Sessions of src/app.py.  Streamlit runs main once per interaction, each    *)
(* session in a thread of its own within one process: st.session_state is     *)
(* per session, the key set by genai.configure is per process.                *)

MaxRequests == 3

\* check_api_requirement()
check_api_requirement(s) == ~api_keys_provided[s] /\ usage_count[s] >= 2

\* get_api_keys()
get_api_keys(s) ==
    IF api_keys_provided[s] THEN session_keys[s]
    ELSE [google |-> DEFAULT_GOOGLE_API_KEY, youtube |-> DEFAULT_YOUTUBE_API_KEY]

\* what triggers a run of main: a selection, the key form's submit button with
\* the two inputs, or the recommendation button
Interactions(s) ==
    {[kind |-> "select", google |-> "", youtube |-> ""]}
    \cup (IF model_calls[s] < MaxRequests
          THEN {[kind |-> "click", google |-> "", youtube |-> ""]} ELSE {})
    \cup (IF check_api_requirement(s)
          THEN {[kind |-> "submit", google |-> g, youtube |-> y] :
                  g \in {"", "user_google_1", "user_google_2"}, y \in {"", "user_youtube"}}
          ELSE {})

\* main, lines 442-446: the requirement is checked and, when the form is shown
\* and was submitted with a model key, show_api_form stores the keys
StartRun(s) ==
    /\ spc[s] = "idle"
    /\ \E i \in Interactions(s) :
         LET saved == i.kind = "submit" /\ i.google # ""
         IN  /\ run' = [run EXCEPT ![s] =
                          [kind |-> i.kind, required |-> check_api_requirement(s),
                           count |-> usage_count[s], provided |-> api_keys_provided[s],
                           youtube |-> "unset", calls |-> <<>>]]
             /\ session_keys' = IF saved
                                THEN [session_keys EXCEPT ![s] =
                                        [google |-> i.google, youtube |-> i.youtube]]
                                ELSE session_keys
             /\ api_keys_provided' = IF saved THEN [api_keys_provided EXCEPT ![s] = TRUE]
                                     ELSE api_keys_provided
             /\ submitted' = IF saved THEN [submitted EXCEPT ![s] = TRUE] ELSE submitted
    /\ spc' = [spc EXCEPT ![s] = "configure"]
    /\ UNCHANGED <<usage_count, genai_api_key, model_calls, pipelineVars>>

\* youtube_api_key = configure_apis(), line 449; the run ends here unless the
\* recommendation button was pressed
ConfigureApis(s) ==
    /\ spc[s] = "configure"
    /\ genai_api_key' = get_api_keys(s).google
    /\ run' = [run EXCEPT ![s].youtube = get_api_keys(s).youtube]
    /\ spc' = [spc EXCEPT ![s] = IF run[s].kind = "click" THEN "increment" ELSE "idle"]
    /\ UNCHANGED <<usage_count, api_keys_provided, session_keys, model_calls, submitted,
                   pipelineVars>>

\* increment_usage(), line 485
IncrementUsage(s) ==
    /\ spc[s] = "increment"
    /\ usage_count' = [usage_count EXCEPT ![s] = @ + 1]
    /\ spc' = [spc EXCEPT ![s] = "model"]
    /\ UNCHANGED <<api_keys_provided, session_keys, genai_api_key, run, model_calls, submitted,
                   pipelineVars>>

\* get_gemini_recommendations, lines 496-500: the model call goes out with the
\* key the process holds at this moment
ModelCall(s) ==
    /\ spc[s] = "model"
    /\ run' = [run EXCEPT ![s].calls =
                 Append(@, [what |-> "model", google |-> genai_api_key, youtube |-> "unset"])]
    /\ model_calls' = [model_calls EXCEPT ![s] = @ + 1]
    /\ spc' = [spc EXCEPT ![s] = "video"]
    /\ UNCHANGED <<usage_count, api_keys_provided, session_keys, genai_api_key, submitted,
                   pipelineVars>>

\* get_video_recommendations, lines 509-513: a model call for the keywords and
\* the video search with the key configure_apis returned
VideoCall(s) ==
    /\ spc[s] = "video"
    /\ run' = [run EXCEPT ![s].calls =
                 Append(@, [what |-> "video", google |-> genai_api_key,
                            youtube |-> run[s].youtube])]
    /\ spc' = [spc EXCEPT ![s] = "idle"]
    /\ UNCHANGED <<usage_count, api_keys_provided, session_keys, genai_api_key, model_calls,
                   submitted, pipelineVars>>

InitSession ==
    /\ rev = "app"
    /\ ExtractIdle
    /\ IngestIdle
    /\ CacheIdle
    /\ VideoIdle
    /\ PromptIdle
    /\ SessionIdle

NextSession ==
    \E s \in Sessions :
        StartRun(s) \/ ConfigureApis(s) \/ IncrementUsage(s) \/ ModelCall(s) \/ VideoCall(s)

SpecSession == InitSession /\ [][NextSession]_vars

-----------------------------------------------------------------------------
(* Claims about sessions *)

\* the model key a call of session s should go out with
KeyOfSession(s) ==
    IF api_keys_provided[s] THEN session_keys[s].google ELSE DEFAULT_GOOGLE_API_KEY

OwnKeysUsed(s) ==
    \A k \in 1..Len(run[s].calls) : run[s].calls[k].google = KeyOfSession(s)

\* C13: in every session usage_count is the number of recommendation requests
\* made, the key form is required exactly when usage_count >= 2 and no keys
\* were provided, api_keys_provided is true only after the form was submitted
\* with a non-empty model key, after which the form is not required and the
\* keys the session supplied are the ones its calls use.
C13_UsageGate ==
    \A s \in Sessions :
        /\ spc[s] \in {"idle", "configure"} => usage_count[s] = model_calls[s]
        /\ run[s].required <=> (run[s].count >= 2 /\ ~run[s].provided)
        /\ api_keys_provided[s] <=> submitted[s]
        /\ api_keys_provided[s] =>
              /\ session_keys[s].google \notin {"", "unset"}
              /\ ~check_api_requirement(s)
              /\ run[s].provided => ~run[s].required
              /\ OwnKeysUsed(s)

\* C17: with two sessions served concurrently, every model call made for a
\* session goes out with that session's model key: the key the session
\* supplied if it supplied keys, the startup default otherwise.
C17_SessionKeyUsed == \A s \in Sessions : OwnKeysUsed(s)

\* C18: the usage gate refuses no request: a run started by the recommendation
\* button, also at usage_count >= 2 without keys and with the form left
\* unsubmitted, makes the model call and then the video call, with the default
\* keys when the session provided none.
C18_NeverRefused ==
    \A s \in Sessions :
        (run[s].kind = "click" /\ spc[s] = "idle") =>
            /\ Len(run[s].calls) = 2
            /\ run[s].calls[1].what = "model"
            /\ run[s].calls[2].what = "video"
            /\ ~api_keys_provided[s] =>
                  \A k \in 1..2 :
                     /\ run[s].calls[k].google = DEFAULT_GOOGLE_API_KEY
                     /\ run[s].calls[2].youtube = DEFAULT_YOUTUBE_API_KEY

====
